---- MODULE Spec2Model ----
(***************************************************************************)
(* The HTTP access layer of MyHealthAI (server.ts) over the four tables of *)
(* db.ts.  Every action is one request handled to completion: the auth     *)
(* middleware, the handler, the statement it runs and the response it      *)
(* sends.  `req' and `resp' hold the request just handled and its answer.  *)
(***************************************************************************)
EXTENDS Integers, Sequences, FiniteSets, TLC

VARIABLES
  users, chat_sessions, chat_history, medical_reports,  \* the four tables
  now,        \* the clock CURRENT_TIMESTAMP reads
  req, resp,  \* the request just handled and the response sent to it
  issued,     \* history: the tokens login has handed out
  appended,   \* history: the POST /api/chat/history requests answered 200
  app,        \* the state of the App component and the token in localStorage
  calls,      \* the handler invocations of App suspended at an await
  net,        \* the saveToHistory requests in flight
  saves,      \* history: the saveToHistory invocations, in program order
  landed      \* history: the invocations whose entry was stored, in store order

vars == <<users, chat_sessions, chat_history, medical_reports,
          now, req, resp, issued, appended, app, calls, net, saves, landed>>

client == <<app, calls, net, saves, landed>>

tables == <<users, chat_sessions, chat_history, medical_reports>>

\* ------------------------------------------------------------------ bounds
MaxSessions == 1
MaxHistory == 2
MaxReports == 1
MaxTime == 1
\* Rows in the four tables together, in the specification of all routes.
MaxRows == 3
MaxCalls == 2
MaxSaves == 2

\* ------------------------------------------------------------ value domains
\* SQL NULL / JS null in an integer column or an id-valued field.
NoId == 0
\* SQL NULL in a text column.
NullText == "NULL"
\* A JSON body field that is missing (JS undefined).
Absent == "undefined"
\* No body was sent with a response (res.sendStatus, an error page).
NoBody == <<>>
\* The handler's promise rejected and no response was written.
NoResponse == 0

Emails == {"a@x.com", "b@x.com"}
Passwords == {"pw1", "pw2"}
Roles == {"user", "assistant"}

JWT_SECRET == "super-secret-key"
OtherKey == "not-the-server-key"

\* ------------------------------------------------------------------ bcrypt
\* bcrypt.hash(password, 10): a salted one-way digest, kept symbolic: the
\* stored value names the algorithm and is not the password string.  A value
\* that is not a string is refused ("Illegal arguments").
bcryptThrows(password) == password = Absent

bcryptHash(password, salt) ==
  [alg |-> "bcrypt", salt |-> salt, digest |-> <<salt, password>>]

\* What a column holds when the password string itself is written to it.
Plain(password) ==
  [alg |-> "plain", salt |-> "", digest |-> <<"", password>>]

bcryptCompare(password, stored) ==
  /\ stored.alg = "bcrypt"
  /\ stored = bcryptHash(password, stored.salt)

Salts == {"salt1"}

\* --------------------------------------------------------------------- jwt
\* jwt.sign(payload, secret): the payload with a signature over it; the
\* signature is symbolic (key and signed payload), so it verifies only for
\* the payload and key it was made from.
jwtSign(payload, secret) ==
  [payload |-> payload, sig |-> [key |-> secret, of |-> payload]]

\* The empty string in the token position of the header.
NoToken == [payload |-> [id |-> NoId, email |-> ""],
            sig |-> [key |-> "", of |-> [id |-> NoId, email |-> ""]]]

jwtVerify_DecodeOnly(token, secret) == TRUE

jwtVerify(token, secret) ==
  token.sig = [key |-> secret, of |-> token.payload]

\* ---------------------------------------------------------------- requests
\* The Authorization header as authHeader.split(' ') sees it: no header is
\* <<>>, "Bearer" alone is one word, "Bearer <token>" two.
NoHeader == <<>>

Bearer(token) == <<"Bearer", token>>

UserIds == 1..Cardinality(Emails)

\* Tokens a caller can make without the server's key: an issued token with
\* its id claim changed under the old signature, or claims signed with a key
\* of the caller's own.
Mutations(t) ==
  {[t EXCEPT !.payload.id = i] : i \in UserIds \ {t.payload.id}}

ForgedTokens ==
  {jwtSign([id |-> 1, email |-> "a@x.com"], OtherKey)}
    \cup UNION {Mutations(t) : t \in issued}

IssuedHeaders == {Bearer(t) : t \in issued}

Headers ==
  {NoHeader, <<"Bearer">>} \cup IssuedHeaders
    \cup {Bearer(t) : t \in ForgedTokens}

\* ---------------------------------------------------------- authenticateToken
Reject(status) == [next |-> FALSE, status |-> status, user |-> NoToken.payload]

authenticateToken_401Only(authHeader) ==
  LET token == IF authHeader # NoHeader /\ Len(authHeader) >= 2
               THEN authHeader[2] ELSE NoToken
  IN IF token = NoToken \/ ~jwtVerify(token, JWT_SECRET) THEN Reject(401)
     ELSE [next |-> TRUE, status |-> 200, user |-> token.payload]

authenticateToken(authHeader) ==
  LET token == IF authHeader # NoHeader /\ Len(authHeader) >= 2
               THEN authHeader[2] ELSE NoToken
  IN IF token = NoToken THEN Reject(401)
     ELSE IF ~jwtVerify(token, JWT_SECRET) THEN Reject(403)
     ELSE [next |-> TRUE, status |-> 200, user |-> token.payload]

\* ------------------------------------------------------------------ the db
\* better-sqlite3 binds undefined as NULL.
Bind(v) == IF v = Absent THEN NullText ELSE v

\* The UNIQUE constraint on users.email.
EmailTaken_Never(email) == FALSE

EmailTaken(email) == \E i \in DOMAIN users : users[i].email = email

\* A request as the server reads it.  The body of a request that the auth
\* middleware turns away is never read, and is left out.
Request(route, auth, body) == [route |-> route, auth |-> auth, body |-> body]

Answer(r, status, body) ==
  /\ req' = r
  /\ resp' = [status |-> status, body |-> body]

\* A request made to the server directly, no App involved.
Respond(r, status, body) ==
  /\ Answer(r, status, body)
  /\ UNCHANGED client

\* A slot of `calls' that holds no invocation.
Idle == [fn |-> "idle", at |-> "idle", sessionId |-> NoId, token |-> NoToken,
         text |-> "", reply |-> [status |-> NoResponse, id |-> NoId]]

\* App as useState initialises it, with nothing in localStorage.
Mounted ==
  /\ app = [token |-> NoToken, user |-> NoId, currentSessionId |-> NoId,
            sessions |-> {}, messages |-> <<>>, isLoading |-> FALSE]
  /\ calls = [k \in 1..MaxCalls |-> Idle]
  /\ net = {}
  /\ saves = <<>>
  /\ landed = <<>>

Init ==
  /\ Mounted
  /\ users = <<>>
  /\ chat_sessions = <<>>
  /\ chat_history = <<>>
  /\ medical_reports = <<>>
  /\ now = 0
  /\ issued = {}
  /\ appended = <<>>
  /\ req = Request("none", NoHeader, NoBody)
  /\ resp = [status |-> NoResponse, body |-> NoBody]

\* The wall clock that CURRENT_TIMESTAMP reads.
Tick ==
  /\ now < MaxTime
  /\ now' = now + 1
  /\ UNCHANGED <<users, chat_sessions, chat_history, medical_reports,
                 issued, appended, req, resp, client>>

\* ------------------------------------------------------- POST /api/auth/register
InsertUser(email, hashedPassword, firstName, lastName) ==
  Append(users, [id |-> Len(users) + 1,
                 email |-> email,
                 password |-> hashedPassword,
                 first_name |-> Bind(firstName),
                 last_name |-> Bind(lastName),
                 mobile |-> NullText,
                 blood_group |-> NullText,
                 personal_notes |-> NullText])

StoredPassword_Plain(password, salt) == Plain(password)

\* hashedPassword, the value bound to the password column.
StoredPassword(password, salt) == bcryptHash(password, salt)

Register ==
  \E email \in Emails \cup {Absent}, password \in Passwords \cup {Absent},
     salt \in Salts :
    LET r == [route |-> "POST /api/auth/register", auth |-> NoHeader,
              body |-> [email |-> email, password |-> password,
                        firstName |-> "A", lastName |-> "B"]]
    IN IF bcryptThrows(password)
       THEN /\ Respond(r, 500, [error |-> "Illegal arguments"])
            /\ UNCHANGED <<tables, now, issued, appended>>
       ELSE IF email = Absent
       THEN /\ Respond(r, 500, [error |-> "NOT NULL constraint failed"])
            /\ UNCHANGED <<tables, now, issued, appended>>
       ELSE IF EmailTaken(email)
       THEN /\ Respond(r, 400, [error |-> "An account with this email already exists. Please sign in instead."])
            /\ UNCHANGED <<tables, now, issued, appended>>
       ELSE /\ users' = InsertUser(email, StoredPassword(password, salt), "A", "B")
            /\ Respond(r, 201, [id |-> Len(users) + 1])
            /\ UNCHANGED <<chat_sessions, chat_history, medical_reports,
                           now, issued, appended>>

\* ---------------------------------------------------------- POST /api/auth/login
UserByEmail(email) == {u \in {users[i] : i \in DOMAIN users} : u.email = email}

LoginToken_NoId(user) ==
  jwtSign([id |-> NoId, email |-> user.email], JWT_SECRET)

LoginToken(user) == jwtSign([id |-> user.id, email |-> user.email], JWT_SECRET)

LoginBody(user) ==
  [token |-> LoginToken(user),
   user |-> [id |-> user.id, email |-> user.email,
             firstName |-> user.first_name, lastName |-> user.last_name]]

Login ==
  \E email \in Emails, password \in Passwords \cup {Absent} :
    LET r == [route |-> "POST /api/auth/login", auth |-> NoHeader,
              body |-> [email |-> email, password |-> password]]
        found == UserByEmail(email)
    IN IF found = {}
       THEN /\ Respond(r, 401, [error |-> "Invalid credentials"])
            /\ UNCHANGED <<tables, now, issued, appended>>
       ELSE LET user == CHOOSE u \in found : TRUE
            IN IF bcryptThrows(password)
               THEN /\ \E s \in {NoResponse, 500} : Respond(r, s, NoBody)
                    /\ UNCHANGED <<tables, now, issued, appended>>
               ELSE IF ~bcryptCompare(password, user.password)
               THEN /\ Respond(r, 401, [error |-> "Invalid credentials"])
                    /\ UNCHANGED <<tables, now, issued, appended>>
               ELSE /\ Respond(r, 200, LoginBody(user))
                    /\ issued' = issued \cup {LoginToken(user)}
                    /\ UNCHANGED <<tables, now, appended>>

\* ------------------------------------------------------- protected routes
\* What Express sends when a handler throws: the statement was not run to
\* completion and nothing was written.
ErrorPage == [error |-> "Internal Server Error"]

Rejected(r, a) ==
  /\ Respond(r, a.status, NoBody)
  /\ UNCHANGED <<tables, now, issued, appended>>

Failed(r) ==
  /\ Respond(r, 500, ErrorPage)
  /\ UNCHANGED <<tables, now, issued, appended>>

Rows(table) == {table[i] : i \in DOMAIN table}

UserExists(id) == \E u \in Rows(users) : u.id = id

SessionExists(id) == \E s \in Rows(chat_sessions) : s.id = id

Asc(a, b) == a.created_at <= b.created_at

Desc(a, b) == a.created_at >= b.created_at

\* The orders in which SELECT ... ORDER BY created_at may return `rows':
\* every arrangement in the direction asked; rows that tie come in any order.
Orderings(rows, direction) ==
  LET n == Cardinality(rows)
      Before(a, b) == IF direction = "ASC" THEN Asc(a, b) ELSE Desc(a, b)
  IN {s \in [1..n -> rows] :
        /\ \A i, j \in 1..n : i # j => s[i] # s[j]
        /\ \A i \in 1..n : i < n => Before(s[i], s[i + 1])}

\* ------------------------------------------------------ GET /api/user/profile
ProfileColumns(u) ==
  [id |-> u.id, email |-> u.email, first_name |-> u.first_name,
   last_name |-> u.last_name, mobile |-> u.mobile,
   blood_group |-> u.blood_group, personal_notes |-> u.personal_notes]

SelectProfile(id) ==
  IF UserExists(id)
  THEN ProfileColumns(CHOOSE u \in Rows(users) : u.id = id)
  ELSE NoBody

GetProfile ==
  \E auth \in Headers :
  LET a == authenticateToken(auth)
  IN IF ~a.next THEN Rejected(Request("GET /api/user/profile", auth, NoBody), a)
     ELSE /\ Respond(Request("GET /api/user/profile", auth, NoBody), 200,
                     SelectProfile(a.user.id))
          /\ UNCHANGED <<tables, now, issued, appended>>

\* ------------------------------------------------------ PUT /api/user/profile
ProfileBodies ==
  {[firstName |-> "A2", lastName |-> "B2", mobile |-> "555",
    bloodGroup |-> "O+", personalNotes |-> "note"],
   [firstName |-> Absent, lastName |-> Absent, mobile |-> "777",
    bloodGroup |-> Absent, personalNotes |-> Absent]}

UpdateUser(u, body) ==
  [u EXCEPT !.first_name = Bind(body.firstName),
            !.last_name = Bind(body.lastName),
            !.mobile = Bind(body.mobile),
            !.blood_group = Bind(body.bloodGroup),
            !.personal_notes = Bind(body.personalNotes)]

PutProfile ==
  \E auth \in Headers :
  LET a == authenticateToken(auth)
  IN IF ~a.next THEN Rejected(Request("PUT /api/user/profile", auth, NoBody), a)
     ELSE \E body \in ProfileBodies :
            /\ users' = [i \in DOMAIN users |->
                           IF users[i].id = a.user.id
                           THEN UpdateUser(users[i], body) ELSE users[i]]
            /\ Respond(Request("PUT /api/user/profile", auth, body), 200,
                       [success |-> TRUE])
            /\ UNCHANGED <<chat_sessions, chat_history, medical_reports,
                           now, issued, appended>>

\* ------------------------------------------------------ GET /api/chat/sessions
SelectSessions_All(userId) == Orderings(Rows(chat_sessions), "DESC")

SelectSessions(userId) ==
  Orderings({s \in Rows(chat_sessions) : s.user_id = userId}, "DESC")

GetSessions ==
  \E auth \in Headers :
  LET a == authenticateToken(auth)
  IN IF ~a.next THEN Rejected(Request("GET /api/chat/sessions", auth, NoBody), a)
     ELSE /\ \E out \in SelectSessions(a.user.id) :
               Respond(Request("GET /api/chat/sessions", auth, NoBody), 200, out)
          /\ UNCHANGED <<tables, now, issued, appended>>

\* ----------------------------------------------------- POST /api/chat/sessions
Titles == {"T"}

\* NOT NULL on title and the foreign key on user_id.
SessionConstraints(userId, title) ==
  /\ Bind(title) # NullText
  /\ UserExists(userId)

InsertSession(userId, title) ==
  Append(chat_sessions, [id |-> Len(chat_sessions) + 1, user_id |-> userId,
                         title |-> title, created_at |-> now])

PostSessions ==
  \E auth \in Headers :
  LET a == authenticateToken(auth)
  IN IF ~a.next THEN Rejected(Request("POST /api/chat/sessions", auth, NoBody), a)
     ELSE \E title \in Titles \cup {Absent} :
            LET r == Request("POST /api/chat/sessions", auth, [title |-> title])
            IN IF ~SessionConstraints(a.user.id, title) THEN Failed(r)
               ELSE /\ Len(chat_sessions) < MaxSessions
                    /\ chat_sessions' = InsertSession(a.user.id, title)
                    /\ Respond(r, 200, [id |-> Len(chat_sessions) + 1])
                    /\ UNCHANGED <<users, chat_history, medical_reports,
                                   now, issued, appended>>

\* ------------------------------------------------------- GET /api/chat/history
HistoryOrder_Desc(rows) == Orderings(rows, "DESC")

\* ORDER BY created_at ASC.
HistoryOrder(rows) == Orderings(rows, "ASC")

\* Without a session id, only the entries that have none.
SelectHistory_Unfiled(userId, sessionId) ==
  IF sessionId # NoId
  THEN HistoryOrder({h \in Rows(chat_history) :
                       h.user_id = userId /\ h.session_id = sessionId})
  ELSE HistoryOrder({h \in Rows(chat_history) :
                       h.user_id = userId /\ h.session_id = NoId})

SelectHistory(userId, sessionId) ==
  IF sessionId # NoId
  THEN HistoryOrder({h \in Rows(chat_history) :
                       h.user_id = userId /\ h.session_id = sessionId})
  ELSE HistoryOrder({h \in Rows(chat_history) : h.user_id = userId})

GetHistory ==
  \E auth \in Headers :
  LET a == authenticateToken(auth)
  IN IF ~a.next THEN Rejected(Request("GET /api/chat/history", auth, NoBody), a)
     ELSE \E sessionId \in 0..MaxSessions :
            /\ \E out \in SelectHistory(a.user.id, sessionId) :
                 Respond(Request("GET /api/chat/history", auth,
                                 [sessionId |-> sessionId]), 200, out)
            /\ UNCHANGED <<tables, now, issued, appended>>

\* ------------------------------------------------------ POST /api/chat/history
Contents == {"hi"}

\* The constraints of chat_history that the INSERT must meet: NOT NULL on
\* role and content, and the two foreign keys (better-sqlite3 opens the
\* database with foreign keys enforced).
HistoryConstraints_NoForeignKeys(userId, role, content, sessionId) ==
  /\ Bind(role) # NullText
  /\ Bind(content) # NullText

HistoryConstraints(userId, role, content, sessionId) ==
  /\ Bind(role) # NullText
  /\ Bind(content) # NullText
  /\ UserExists(userId)
  /\ sessionId # NoId => SessionExists(sessionId)

\* INSERT OR REPLACE keyed on the owner and the session.
InsertHistory_Replace(userId, role, content, sessionId) ==
  IF \E i \in DOMAIN chat_history :
       chat_history[i].user_id = userId /\ chat_history[i].session_id = sessionId
  THEN [i \in DOMAIN chat_history |->
          IF chat_history[i].user_id = userId
             /\ chat_history[i].session_id = sessionId
          THEN [chat_history[i] EXCEPT !.role = role, !.content = content,
                                       !.created_at = now]
          ELSE chat_history[i]]
  ELSE Append(chat_history, [id |-> Len(chat_history) + 1, user_id |-> userId,
                             session_id |-> sessionId, role |-> role,
                             content |-> content, created_at |-> now])

\* The new row placed before the rows stored so far.
InsertHistory_First(userId, role, content, sessionId) ==
  <<[id |-> Len(chat_history) + 1, user_id |-> userId,
     session_id |-> sessionId, role |-> role,
     content |-> content, created_at |-> now]>> \o chat_history

InsertHistory(userId, role, content, sessionId) ==
  Append(chat_history, [id |-> Len(chat_history) + 1, user_id |-> userId,
                        session_id |-> sessionId, role |-> role,
                        content |-> content, created_at |-> now])

PostHistory ==
  \E auth \in Headers :
  LET a == authenticateToken(auth)
  IN IF ~a.next THEN Rejected(Request("POST /api/chat/history", auth, NoBody), a)
     ELSE \E role \in Roles \cup {"system", Absent}, content \in Contents,
             sessionId \in 0..MaxSessions :
            LET r == Request("POST /api/chat/history", auth,
                             [role |-> role, content |-> content,
                              sessionId |-> sessionId])
            IN IF ~HistoryConstraints(a.user.id, role, content, sessionId)
               THEN Failed(r)
               ELSE /\ Len(chat_history) < MaxHistory
                    /\ chat_history' =
                         InsertHistory(a.user.id, role, content, sessionId)
                    /\ Respond(r, 200, [success |-> TRUE])
                    /\ appended' = Append(appended,
                                          [user_id |-> a.user.id, body |-> r.body])
                    /\ UNCHANGED <<users, chat_sessions, medical_reports,
                                   now, issued>>

\* ----------------------------------------------------- POST /api/reports/upload
\* NOT NULL on analysis and the foreign key on user_id.
ReportConstraints(userId, analysis) ==
  /\ Bind(analysis) # NullText
  /\ UserExists(userId)

InsertReport(userId, filename, analysis) ==
  Append(medical_reports, [id |-> Len(medical_reports) + 1, user_id |-> userId,
                           filename |-> filename, analysis |-> analysis,
                           created_at |-> now])

PostReport ==
  \E auth \in Headers :
  LET a == authenticateToken(auth)
  IN IF ~a.next THEN Rejected(Request("POST /api/reports/upload", auth, NoBody), a)
     ELSE \E file \in {"scan.pdf", Absent}, analysis \in {"analysis", Absent} :
            LET r == Request("POST /api/reports/upload", auth,
                             [file |-> file, analysis |-> analysis])
                filename == IF file = Absent THEN "report.pdf" ELSE file
            IN IF ~ReportConstraints(a.user.id, analysis) THEN Failed(r)
               ELSE /\ Len(medical_reports) < MaxReports
                    /\ medical_reports' =
                         InsertReport(a.user.id, filename, analysis)
                    /\ Respond(r, 200, [success |-> TRUE])
                    /\ UNCHANGED <<users, chat_sessions, chat_history,
                                   now, issued, appended>>

\* ------------------------------------------------------------ GET /api/reports
SelectReports(userId) ==
  Orderings({m \in Rows(medical_reports) : m.user_id = userId}, "DESC")

GetReports ==
  \E auth \in Headers :
  LET a == authenticateToken(auth)
  IN IF ~a.next THEN Rejected(Request("GET /api/reports", auth, NoBody), a)
     ELSE /\ \E out \in SelectReports(a.user.id) :
               Respond(Request("GET /api/reports", auth, NoBody), 200, out)
          /\ UNCHANGED <<tables, now, issued, appended>>

\* -------------------------------------------------------------------- system
TotalRows ==
  Len(users) + Len(chat_sessions) + Len(chat_history) + Len(medical_reports)

RowBudget == TotalRows <= MaxRows

\* Every route, any caller, from the state after construction, over the
\* databases of at most MaxRows rows.
Next ==
  \/ Register /\ RowBudget'
  \/ Login
  \/ GetProfile
  \/ PutProfile
  \/ GetSessions
  \/ PostSessions /\ RowBudget'
  \/ GetHistory
  \/ PostHistory /\ RowBudget'
  \/ PostReport /\ RowBudget'
  \/ GetReports

Spec == Init /\ [][Next]_vars

\* The credential store and the profile routes.
NextAuth == Register \/ Login \/ GetProfile \/ PutProfile

SpecAuth == Init /\ [][NextAuth]_vars

\* The chat routes, from a state in which both accounts were registered and
\* have logged in (Register, Register, Login, Login from Init).
SignedIn ==
  /\ users = <<[id |-> 1, email |-> "a@x.com",
                password |-> bcryptHash("pw1", "salt1"),
                first_name |-> "A", last_name |-> "B", mobile |-> NullText,
                blood_group |-> NullText, personal_notes |-> NullText],
               [id |-> 2, email |-> "b@x.com",
                password |-> bcryptHash("pw2", "salt1"),
                first_name |-> "A", last_name |-> "B", mobile |-> NullText,
                blood_group |-> NullText, personal_notes |-> NullText]>>
  /\ issued = {jwtSign([id |-> 1, email |-> "a@x.com"], JWT_SECRET),
               jwtSign([id |-> 2, email |-> "b@x.com"], JWT_SECRET)}

InitChat ==
  /\ Mounted
  /\ SignedIn
  /\ chat_sessions = <<>>
  /\ chat_history = <<>>
  /\ medical_reports = <<>>
  /\ now = 0
  /\ appended = <<>>
  /\ req = Request("none", NoHeader, NoBody)
  /\ resp = [status |-> NoResponse, body |-> NoBody]

NextChat == Tick \/ GetSessions \/ PostSessions \/ GetHistory \/ PostHistory

SpecChat == InitChat /\ [][NextChat]_vars

\* ================================================================ the client
\* App (App.tsx) against the server.  A handler runs to its next await in one
\* step; the invocation then waits in `calls' until the awaited call settles,
\* and the steps of other handlers come in between.  A saveToHistory request
\* is not waited for by its caller: it stays in `net' until the server
\* handles it or the transport loses it.

\* The request of a suspended invocation has not been answered.
NoReply == [status |-> NoResponse, id |-> NoId]

\* response.text of a model call: a text, or undefined.
Replies == {"ok", Absent}

Files == {"f.pdf"}

Message(role, content) == [role |-> role, content |-> content]

FreeSlots == {k \in DOMAIN calls : calls[k].fn = Idle.fn}

Slot == CHOOSE k \in FreeSlots : \A j \in FreeSlots : k <= j

Call(fn, at, sessionId, token, text) ==
  [fn |-> fn, at |-> at, sessionId |-> sessionId, token |-> token,
   text |-> text, reply |-> NoReply]

Suspended(fn, at) ==
  {k \in DOMAIN calls : calls[k].fn = fn /\ calls[k].at = at}

\* The part of the state the handlers of App write, as one value.
Browser == [app |-> app, net |-> net, saves |-> saves]

Commit(st) ==
  /\ app' = st.app
  /\ net' = st.net
  /\ saves' = st.saves

setMessages(st, added) == [st EXCEPT !.app.messages = @ \o added]

setIsLoading(st, value) == [st EXCEPT !.app.isLoading = value]

\* setCurrentSessionId(sessionId) and the setSessions that follows it.
setCurrentSessionId(st, sessionId) ==
  [st EXCEPT !.app.currentSessionId = sessionId,
             !.app.sessions = @ \cup {sessionId}]

saveToHistory_Always(st, role, content, sessionId) ==
  [st EXCEPT
     !.saves = Append(@, [role |-> role, content |-> content,
                          sessionId |-> sessionId, posted |-> TRUE]),
     !.net = @ \cup {[n |-> Len(st.saves) + 1, token |-> st.app.token,
                      body |-> [role |-> role, content |-> content,
                                sessionId |-> sessionId]]}]

\* saveToHistory(role, content, sessionId) up to its fetch: nothing is sent
\* when localStorage holds no token.
saveToHistory(st, role, content, sessionId) ==
  IF st.app.token = NoToken
  THEN [st EXCEPT
          !.saves = Append(@, [role |-> role, content |-> content,
                               sessionId |-> sessionId, posted |-> FALSE])]
  ELSE [st EXCEPT
          !.saves = Append(@, [role |-> role, content |-> content,
                               sessionId |-> sessionId, posted |-> TRUE]),
          !.net = @ \cup {[n |-> Len(st.saves) + 1, token |-> st.app.token,
                           body |-> [role |-> role, content |-> content,
                                     sessionId |-> sessionId]]}]

server == <<tables, now, issued, appended, req, resp>>

\* ------------------------------------------------- handleLogout, startNewChat
\* A logout that also leaves the conversation.
handleLogout_Reset ==
  /\ app.user # NoId
  /\ app' = [app EXCEPT !.token = NoToken, !.user = NoId,
                        !.messages = <<>>, !.currentSessionId = NoId]
  /\ UNCHANGED <<server, calls, net, saves, landed>>

handleLogout ==
  /\ app.user # NoId
  /\ app' = [app EXCEPT !.token = NoToken, !.user = NoId]
  /\ UNCHANGED <<server, calls, net, saves, landed>>

startNewChat ==
  /\ app.user # NoId
  /\ app' = [app EXCEPT !.messages = <<>>, !.currentSessionId = NoId]
  /\ UNCHANGED <<server, calls, net, saves, landed>>

\* ----------------------------------------- POST /api/chat/sessions for App
\* The server handles the session request of a suspended handleSend or
\* handleFileUpload; the answer is on its way back to the invocation.  The
\* table takes up to `rows' rows.
PostSessionsUpTo(rows) ==
  \E k \in Suspended("handleSend", "sessions")
           \cup Suspended("handleFileUpload", "sessions"),
     title \in Titles :
    LET auth == Bearer(calls[k].token)
        a == authenticateToken(auth)
        r == Request("POST /api/chat/sessions", auth, [title |-> title])
    IN /\ calls[k].reply.status = NoResponse
       /\ IF ~a.next
          THEN /\ Answer(Request(r.route, auth, NoBody), a.status, NoBody)
               /\ calls' = [calls EXCEPT ![k].reply =
                              [status |-> a.status, id |-> NoId]]
               /\ UNCHANGED chat_sessions
          ELSE IF ~SessionConstraints(a.user.id, title)
          THEN /\ Answer(r, 500, ErrorPage)
               /\ calls' = [calls EXCEPT ![k].reply =
                              [status |-> 500, id |-> NoId]]
               /\ UNCHANGED chat_sessions
          ELSE /\ Len(chat_sessions) < rows
               /\ chat_sessions' = InsertSession(a.user.id, title)
               /\ Answer(r, 200, [id |-> Len(chat_sessions) + 1])
               /\ calls' = [calls EXCEPT ![k].reply =
                              [status |-> 200, id |-> Len(chat_sessions) + 1]]
       /\ UNCHANGED <<users, chat_history, medical_reports, now, issued,
                      appended, app, net, saves, landed>>

PostSessionsCall == PostSessionsUpTo(MaxSessions)

\* Whether res.json() gave the body of a 200 answer.  Otherwise fetch rejected (the
\* request or its answer was lost) or res.json() threw on a body that is
\* not JSON, and the catch block ran.
Created_Always(c) == TRUE

Created(c) == c.reply.status = 200

SessionIdOf_Stale(c) == c.sessionId

\* sessionId = data.id
SessionIdOf(c) == c.reply.id

\* --------------------------------------------------------------- handleSend
ModelFallback == "I'm sorry, I couldn't process that."

\* handleSend from the local append of the user message to the await of
\* chatWithAI.
Send(st, k, text, sessionId, token) ==
  /\ Len(saves) < MaxSaves
  /\ Commit(setIsLoading(
              saveToHistory(setMessages(st, <<Message("user", text)>>),
                            "user", text, sessionId),
              TRUE))
  /\ calls' = [calls EXCEPT ![k] =
                 Call("handleSend", "model", sessionId, token, text)]

handleSend ==
  \E text \in Contents :
    /\ app.user # NoId
    /\ ~app.isLoading
    /\ FreeSlots # {}
    /\ IF app.currentSessionId = NoId /\ app.token # NoToken
       THEN /\ app' = [app EXCEPT !.isLoading = TRUE]
            /\ calls' = [calls EXCEPT ![Slot] =
                           Call("handleSend", "sessions", NoId, app.token, text)]
            /\ UNCHANGED <<net, saves>>
       ELSE Send(Browser, Slot, text, app.currentSessionId, app.token)
    /\ UNCHANGED <<server, landed>>

\* handleSend resumed after the await of the session request.
handleSend_sessions ==
  \E k \in Suspended("handleSend", "sessions"), ok \in BOOLEAN :
    LET c == calls[k]
    IN /\ ok => Created(c)
       /\ IF ok
          THEN Send(setCurrentSessionId(Browser, SessionIdOf(c)), k, c.text,
                    SessionIdOf(c), c.token)
          ELSE Send(Browser, k, c.text, c.sessionId, c.token)
       /\ UNCHANGED <<server, landed>>

\* handleSend resumed after the await of chatWithAI: it returned a response
\* or it threw.
handleSend_model ==
  \E k \in Suspended("handleSend", "model") :
    LET c == calls[k]
    IN /\ \/ \E response \in Replies :
               LET content == IF response = Absent THEN ModelFallback
                                                   ELSE response
               IN /\ Len(saves) < MaxSaves
                  /\ Commit(setIsLoading(
                              saveToHistory(
                                setMessages(Browser,
                                            <<Message("assistant", content)>>),
                                "assistant", content, c.sessionId),
                              FALSE))
          \/ /\ app' = [app EXCEPT !.isLoading = FALSE]
             /\ UNCHANGED <<net, saves>>
       /\ calls' = [calls EXCEPT ![k] = Idle]
       /\ UNCHANGED <<server, landed>>

\* ---------------------------------------------------------- handleFileUpload
UploadNote(file) == "Uploaded report: " \o file

handleFileUpload ==
  \E file \in Files :
    /\ app.user # NoId
    /\ FreeSlots # {}
    /\ app' = [app EXCEPT !.isLoading = TRUE]
    /\ calls' = [calls EXCEPT ![Slot] =
                   Call("handleFileUpload",
                        IF app.currentSessionId = NoId /\ app.token # NoToken
                        THEN "sessions" ELSE "model",
                        app.currentSessionId, app.token, file)]
    /\ UNCHANGED <<server, net, saves, landed>>

\* handleFileUpload resumed after the await of the session request; it goes
\* on to read the file and to await analyzeReport.
handleFileUpload_sessions ==
  \E k \in Suspended("handleFileUpload", "sessions"), ok \in BOOLEAN :
    LET c == calls[k]
    IN /\ ok => Created(c)
       /\ IF ok
          THEN /\ Commit(setCurrentSessionId(Browser, SessionIdOf(c)))
               /\ calls' = [calls EXCEPT ![k] =
                              Call(c.fn, "model", SessionIdOf(c), c.token, c.text)]
          ELSE /\ calls' = [calls EXCEPT ![k] =
                              Call(c.fn, "model", c.sessionId, c.token, c.text)]
               /\ UNCHANGED <<app, net, saves>>
       /\ UNCHANGED <<server, landed>>

\* reader.onload resumed after the await of analyzeReport.
handleFileUpload_model ==
  \E k \in Suspended("handleFileUpload", "model") :
    LET c == calls[k]
    IN /\ \/ \E analysis \in Replies :
               /\ Len(saves) + 2 <= MaxSaves
               /\ Commit(setIsLoading(
                           saveToHistory(
                             saveToHistory(
                               setMessages(Browser,
                                           <<Message("user", UploadNote(c.text)),
                                             Message("assistant", analysis)>>),
                               "user", UploadNote(c.text), c.sessionId),
                             "assistant", analysis, c.sessionId),
                           FALSE))
          \/ /\ app' = [app EXCEPT !.isLoading = FALSE]
             /\ UNCHANGED <<net, saves>>
       /\ calls' = [calls EXCEPT ![k] = Idle]
       /\ UNCHANGED <<server, landed>>

\* ------------------------------------------------------ fetchSessionMessages
\* A session of the list is clicked.
fetchSessionMessages ==
  \E sessionId \in app.sessions :
    /\ app.user # NoId
    /\ app.token # NoToken
    /\ FreeSlots # {}
    /\ app' = [app EXCEPT !.isLoading = TRUE]
    /\ calls' = [calls EXCEPT ![Slot] =
                   Call("fetchSessionMessages", "history", sessionId,
                        app.token, "")]
    /\ UNCHANGED <<server, net, saves, landed>>

formattedMessages(data) ==
  [i \in DOMAIN data |-> Message(data[i].role, data[i].content)]

\* fetchSessionMessages resumed after the await of GET /api/chat/history:
\* the server answered, or fetch rejected.
fetchSessionMessages_history ==
  \E k \in Suspended("fetchSessionMessages", "history") :
    LET c == calls[k]
        auth == Bearer(c.token)
        a == authenticateToken(auth)
        r == Request("GET /api/chat/history", auth, [sessionId |-> c.sessionId])
    IN /\ \/ /\ a.next
             /\ \E data \in SelectHistory(a.user.id, c.sessionId) :
                  /\ Answer(r, 200, data)
                  /\ app' = [app EXCEPT !.messages = formattedMessages(data),
                                        !.currentSessionId = c.sessionId,
                                        !.isLoading = FALSE]
          \/ /\ ~a.next
             /\ Answer(Request(r.route, auth, NoBody), a.status, NoBody)
             /\ app' = [app EXCEPT !.isLoading = FALSE]
          \/ /\ app' = [app EXCEPT !.isLoading = FALSE]
             /\ UNCHANGED <<req, resp>>
       /\ calls' = [calls EXCEPT ![k] = Idle]
       /\ UNCHANGED <<tables, now, issued, appended, net, saves, landed>>

\* ------------------------------------------ POST /api/chat/history for App
\* The server handles a saveToHistory request in flight, whichever it is.
PostHistoryCall ==
  \E m \in net :
    LET auth == Bearer(m.token)
        a == authenticateToken(auth)
        r == Request("POST /api/chat/history", auth, m.body)
    IN /\ net' = net \ {m}
       /\ IF ~a.next
          THEN /\ Answer(Request(r.route, auth, NoBody), a.status, NoBody)
               /\ UNCHANGED <<chat_history, appended, landed>>
          ELSE IF ~HistoryConstraints(a.user.id, m.body.role, m.body.content,
                                      m.body.sessionId)
          THEN /\ Answer(r, 500, ErrorPage)
               /\ UNCHANGED <<chat_history, appended, landed>>
          ELSE /\ Len(chat_history) < MaxHistory
               /\ chat_history' = InsertHistory(a.user.id, m.body.role,
                                                m.body.content, m.body.sessionId)
               /\ Answer(r, 200, [success |-> TRUE])
               /\ appended' = Append(appended,
                                     [user_id |-> a.user.id, body |-> m.body])
               /\ landed' = Append(landed, m.n)
       /\ UNCHANGED <<users, chat_sessions, medical_reports, now, issued,
                      app, calls, saves>>

\* fetch rejects in saveToHistory: the catch block logs the error.
LoseHistory ==
  \E m \in net :
    /\ net' = net \ {m}
    /\ UNCHANGED <<server, app, calls, saves, landed>>

NextClient ==
  \/ handleLogout
  \/ startNewChat
  \/ handleSend
  \/ handleSend_sessions
  \/ handleSend_model
  \/ handleFileUpload
  \/ handleFileUpload_sessions
  \/ handleFileUpload_model
  \/ fetchSessionMessages
  \/ fetchSessionMessages_history
  \/ PostSessionsCall
  \/ PostHistoryCall
  \/ LoseHistory

\* App after handleAuth signed the first user in: the token and the user of
\* the login answer are in localStorage and in `user', the rest is as
\* useState initialises it; no session or entry is stored yet.
InitClient ==
  /\ SignedIn
  /\ chat_sessions = <<>>
  /\ chat_history = <<>>
  /\ medical_reports = <<>>
  /\ now = 0
  /\ appended = <<>>
  /\ req = Request("POST /api/auth/login", NoHeader,
                   [email |-> users[1].email, password |-> "pw1"])
  /\ resp = [status |-> 200, body |-> LoginBody(users[1])]
  /\ app = [token |-> resp.body.token, user |-> resp.body.user.id,
            currentSessionId |-> NoId, sessions |-> {}, messages |-> <<>>,
            isLoading |-> FALSE]
  /\ calls = [k \in 1..MaxCalls |-> Idle]
  /\ net = {}
  /\ saves = <<>>
  /\ landed = <<>>

SpecClient == InitClient /\ [][NextClient]_vars

\* ------------------------------------------------------------- handleAuth
\* handleAuth in login mode, from the submit of the form to the end of the
\* handler: the form is shown only while no user is signed in.  A 200 answer
\* puts the token and the user in localStorage and in `user'; nothing else
\* of the state of App is written.  Any other answer raises an alert.
handleAuth ==
  \E email \in Emails, password \in Passwords :
    LET r == Request("POST /api/auth/login", NoHeader,
                     [email |-> email, password |-> password])
        found == UserByEmail(email)
    IN /\ app.user = NoId
       /\ IF found # {}
             /\ bcryptCompare(password, (CHOOSE u \in found : TRUE).password)
          THEN LET data == LoginBody(CHOOSE u \in found : TRUE)
               IN /\ Answer(r, 200, data)
                  /\ issued' = issued \cup {data.token}
                  /\ app' = [app EXCEPT !.token = data.token,
                                        !.user = data.user.id]
          ELSE /\ Answer(r, 401, [error |-> "Invalid credentials"])
               /\ UNCHANGED <<issued, app>>
       /\ UNCHANGED <<tables, now, appended, calls, net, saves, landed>>

\* The sessions table takes two rows where two handlers race.
MaxCreated == 2

PostSessionsRace == PostSessionsUpTo(MaxCreated)

\* One conversation of App that is never reset, with a change of user: the
\* user sends messages, signs out and signs in again, as either user, and
\* does not click New Chat, open a stored session or reload the page.
NextSwitch ==
  \/ handleLogout
  \/ handleAuth
  \/ handleSend
  \/ handleSend_sessions
  \/ handleSend_model
  \/ PostSessionsCall
  \/ PostHistoryCall
  \/ LoseHistory

SpecSwitch == InitClient /\ [][NextSwitch]_vars

\* One conversation of App that is never reset, with its races: the user
\* sends messages and uploads files in any order and stays signed in.
NextRace ==
  \/ handleSend
  \/ handleSend_sessions
  \/ handleSend_model
  \/ handleFileUpload
  \/ handleFileUpload_sessions
  \/ handleFileUpload_model
  \/ PostSessionsRace
  \/ PostHistoryCall
  \/ LoseHistory

SpecRace == InitClient /\ [][NextRace]_vars

\* ===================================================================== claims
PublicRoutes == {"POST /api/auth/register", "POST /api/auth/login"}

ProtectedRoutes ==
  {"GET /api/user/profile", "PUT /api/user/profile",
   "GET /api/chat/sessions", "POST /api/chat/sessions",
   "GET /api/chat/history", "POST /api/chat/history",
   "POST /api/reports/upload", "GET /api/reports"}

CarriesToken(auth) == Len(auth) >= 2

\* The request presents a token that login handed out.
CarriesIssued(auth) == CarriesToken(auth) /\ auth[2] \in issued

\* C1: a request to a protected route whose token is absent or does not
\* verify is turned away before the handler: the step leaves all four tables
\* as they were and the response carries no body; a step that is served
\* without an issued token is a register or a login.
C1_RejectedBeforeHandler ==
  [][~CarriesIssued(req'.auth) =>
       \/ req'.route \in PublicRoutes
       \/ /\ req'.route \in ProtectedRoutes
          /\ tables' = tables
          /\ resp'.body = NoBody
          /\ resp'.status \in {401, 403}]_vars

\* A history listing was asked for with a forged token while the caller's
\* entries were in the table, and was refused.
C1_Witness ==
  /\ req.route = "GET /api/chat/history"
  /\ CarriesToken(req.auth) /\ ~CarriesIssued(req.auth)
  /\ \E h \in Rows(chat_history) : h.user_id = req.auth[2].payload.id
  /\ resp.status = 403

\* C2: on a protected route, a request without a token is answered 401 and
\* a request with a token that login did not issue (its signature does not
\* verify) is answered 403, and nothing else.
C2_StatusCodes ==
  req.route \in ProtectedRoutes =>
    /\ ~CarriesToken(req.auth) => resp.status = 401
    /\ CarriesToken(req.auth) /\ ~CarriesIssued(req.auth) => resp.status = 403

\* A token with the server's signature but altered claims was answered 403.
C2_Witness ==
  /\ req.route \in ProtectedRoutes
  /\ CarriesToken(req.auth)
  /\ req.auth[2].sig.key = JWT_SECRET
  /\ req.auth[2].sig.of # req.auth[2].payload
  /\ resp.status = 403

\* The password a stored hash was computed from.
PlainOf(u) == u.password.digest[2]

Registered(email) == \E u \in Rows(users) : u.email = email

Holder(email) == CHOOSE u \in Rows(users) : u.email = email

\* C3 (as amended): a register call for an email that is already registered
\* fails, adds no user and leaves every user record as it was; it fails
\* with 400 when the call carries a password and with 500 when it carries
\* none (the hashing throws before the INSERT is tried).
C3_DuplicateLeavesRecord ==
  [][(req'.route = "POST /api/auth/register" /\ Registered(req'.body.email)) =>
       /\ users' = users
       /\ resp'.status = IF req'.body.password = Absent THEN 500 ELSE 400]_vars

\* C3 as stated: every register call for a registered email ends 400.
C3_AlwaysDuplicateEmail ==
  [][(req'.route = "POST /api/auth/register" /\ Registered(req'.body.email)) =>
       /\ users' = users
       /\ resp'.status = 400]_vars

\* A second register, with another password, for an account whose profile
\* had been updated since, was answered 400.
C3_Witness ==
  /\ req.route = "POST /api/auth/register"
  /\ resp.status = 400
  /\ Registered(req.body.email)
  /\ Holder(req.body.email).mobile # NullText
  /\ PlainOf(Holder(req.body.email)) # req.body.password

\* C4: a login with an email and password that a registration stored is
\* answered 200 with a token that authenticateToken accepts and whose claims
\* are that user's id and email; every issued token is accepted, and every
\* token a caller can present that login did not issue is rejected.
C4_LoginTokenVerifies ==
  /\ (/\ req.route = "POST /api/auth/login"
      /\ Registered(req.body.email)
      /\ PlainOf(Holder(req.body.email)) = req.body.password) =>
       /\ resp.status = 200
       /\ authenticateToken(Bearer(resp.body.token)).next
       /\ authenticateToken(Bearer(resp.body.token)).user =
            [id |-> Holder(req.body.email).id, email |-> req.body.email]
       /\ resp.body.token \in issued
  /\ \A t \in issued : authenticateToken(Bearer(t)).next
  /\ \A h \in Headers :
       authenticateToken(h).next => CarriesIssued(h)

\* The second account logged in while a token of the first was out, so that
\* tokens altered from an issued one are among the headers tried.
C4_Witness ==
  /\ req.route = "POST /api/auth/login"
  /\ resp.status = 200
  /\ Cardinality(issued) = 2
  /\ \E t \in ForgedTokens : t.sig.key = JWT_SECRET

Column(field) ==
  CASE field = "firstName" -> "first_name"
    [] field = "lastName" -> "last_name"
    [] field = "mobile" -> "mobile"
    [] field = "bloodGroup" -> "blood_group"
    [] field = "personalNotes" -> "personal_notes"

ProfileFields == {"firstName", "lastName", "mobile", "bloodGroup", "personalNotes"}

\* C6 as stated: after a PUT of the profile the caller's record holds the
\* supplied value in every field the body names and its former value in
\* every field the body leaves out, and a GET of the profile returns the
\* caller's record.
C6_RoundTrip ==
  [][/\ (req'.route = "PUT /api/user/profile" /\ resp'.status = 200) =>
          \A i \in DOMAIN users :
            users[i].id = req'.auth[2].payload.id =>
              \A f \in ProfileFields :
                users'[i][Column(f)] =
                  IF req'.body[f] # Absent THEN req'.body[f]
                  ELSE users[i][Column(f)]
     /\ (req'.route = "GET /api/user/profile" /\ resp'.status = 200) =>
          \E u \in Rows(users') :
            /\ u.id = req'.auth[2].payload.id
            /\ resp'.body = ProfileColumns(u)]_vars

\* The strings a response carries.
TextsReturned ==
  IF req.route = "POST /api/auth/register" /\ resp.status # 201
    THEN {resp.body.error}
  ELSE IF req.route = "POST /api/auth/login" /\ resp.status = 401
    THEN {resp.body.error}
  ELSE IF req.route = "POST /api/auth/login" /\ resp.status = 200
    THEN {resp.body.token.payload.email, resp.body.user.email,
          resp.body.user.firstName, resp.body.user.lastName}
  ELSE IF req.route = "GET /api/user/profile" /\ resp.status = 200
          /\ resp.body # NoBody
    THEN {resp.body[c] : c \in DOMAIN resp.body \ {"id"}}
  ELSE {}

\* C10 (as amended): the user store holds the bcrypt hash of each password
\* and never the password; no response carries a stored user's password; the
\* login response holds a token and the user's id, email and names, and the
\* profile response holds no password column; a request to a route other
\* than register and login has no password field.
C10_NoPlaintextKept ==
  /\ \A u \in Rows(users) : u.password.alg = "bcrypt"
  /\ \A u \in Rows(users) : PlainOf(u) \notin TextsReturned
  /\ (req.route = "POST /api/auth/login" /\ resp.status = 200) =>
       /\ DOMAIN resp.body = {"token", "user"}
       /\ DOMAIN resp.body.user = {"id", "email", "firstName", "lastName"}
       /\ DOMAIN resp.body.token.payload = {"id", "email"}
  /\ (req.route = "GET /api/user/profile" /\ resp.status = 200
      /\ resp.body # NoBody) =>
       "password" \notin DOMAIN resp.body
  /\ (req.route \in ProtectedRoutes /\ req.body # NoBody) =>
       "password" \notin DOMAIN req.body

\* C10 as stated: besides the above, no request that follows a user's
\* registration carries that user's password.
C10_NeverSentAgain ==
  [][\A u \in Rows(users) :
       ~ /\ req'.route \in PublicRoutes
         /\ req'.body.email = u.email
         /\ req'.body.password = PlainOf(u)]_vars

\* A registered user's profile was returned.
C10_Witness ==
  /\ req.route = "GET /api/user/profile"
  /\ resp.status = 200
  /\ resp.body # NoBody
  /\ \E u \in Rows(users) : u.id = resp.body.id /\ PlainOf(u) \in Passwords

\* The successful appends of `userId' under `sessionId', by their place in
\* the order served (the n-th append served is stored with id n).
AppendsOf(userId, sessionId) ==
  {n \in DOMAIN appended :
     appended[n].user_id = userId /\ appended[n].body.sessionId = sessionId}

\* C5: a 200 answer to GET /api/chat/history?sessionId=s holds exactly the
\* entries the caller appended under s (one per successful append, with its
\* role and content), in non-decreasing created_at order.
C5_SessionHistoryListed ==
  (/\ req.route = "GET /api/chat/history"
   /\ resp.status = 200
   /\ req.body.sessionId # NoId) =>
    LET caller == req.auth[2].payload.id
        s == req.body.sessionId
        out == resp.body
    IN /\ Len(out) = Cardinality(AppendsOf(caller, s))
       /\ {out[k].id : k \in DOMAIN out} = AppendsOf(caller, s)
       /\ \A k \in DOMAIN out :
            /\ out[k].user_id = caller
            /\ out[k].session_id = s
            /\ out[k].role = appended[out[k].id].body.role
            /\ out[k].content = appended[out[k].id].body.content
       /\ \A j, k \in DOMAIN out :
            j < k => out[j].created_at <= out[k].created_at

\* A session's listing came back with two entries made at different times.
C5_Witness ==
  /\ req.route = "GET /api/chat/history"
  /\ resp.status = 200
  /\ req.body.sessionId # NoId
  /\ Len(resp.body) = 2
  /\ resp.body[1].created_at < resp.body[2].created_at

\* C7: every stored history entry with a session id names a stored session.
C7_EntrySessionExists ==
  \A h \in Rows(chat_history) :
    h.session_id # NoId =>
      \E s \in Rows(chat_sessions) : s.id = h.session_id

\* An entry is stored under a session.
C7_Witness == \E h \in Rows(chat_history) : h.session_id # NoId

\* One table after a step: the rows it had, as they were, and at most one more.
Grown(old, new) ==
  /\ Len(old) <= Len(new)
  /\ Len(new) <= Len(old) + 1
  /\ \A i \in DOMAIN old : new[i] = old[i]

\* C8: every step leaves the stored sessions, history entries and reports as
\* they were and adds at most one row to each table.
C8_AppendOnly ==
  [][/\ Grown(chat_sessions, chat_sessions')
     /\ Grown(chat_history, chat_history')
     /\ Grown(medical_reports, medical_reports')]_vars

\* A second history entry was stored beside the first.
C8_Witness ==
  /\ Len(chat_history) = 2
  /\ req.route = "POST /api/chat/history"
  /\ resp.status = 200

\* C9 as stated: every stored history entry has role "user" or "assistant".
C9_RolesEnumerated == \A h \in Rows(chat_history) : h.role \in Roles

\* C12: a 200 answer to GET /api/chat/history without a sessionId holds every
\* entry the caller owns, whatever its session (none included), each once,
\* in non-decreasing created_at order.
C12_WholeHistoryListed ==
  (/\ req.route = "GET /api/chat/history"
   /\ resp.status = 200
   /\ req.body.sessionId = NoId) =>
    LET caller == req.auth[2].payload.id
        out == resp.body
    IN /\ {out[k] : k \in DOMAIN out} =
            {h \in Rows(chat_history) : h.user_id = caller}
       /\ \A j, k \in DOMAIN out : j # k => out[j] # out[k]
       /\ \A j, k \in DOMAIN out :
            j < k => out[j].created_at <= out[k].created_at

\* The whole history came back with an entry of no session and a later entry
\* of a session.
C12_Witness ==
  /\ req.route = "GET /api/chat/history"
  /\ resp.status = 200
  /\ req.body.sessionId = NoId
  /\ Len(resp.body) = 2
  /\ \E j, k \in DOMAIN resp.body :
       /\ resp.body[j].session_id = NoId
       /\ resp.body[k].session_id # NoId
  /\ resp.body[1].created_at < resp.body[2].created_at

ListRoutes == {"GET /api/chat/sessions", "GET /api/chat/history", "GET /api/reports"}

\* C19: a 200 answer of a read endpoint holds only records of the user named
\* in the caller's token: the profile is that user's row, and every session,
\* history entry and report listed has that user's id as user_id.
C19_ReadsOwnRecordsOnly ==
  LET caller == req.auth[2].payload.id
  IN /\ (req.route = "GET /api/user/profile" /\ resp.status = 200
         /\ resp.body # NoBody) =>
          /\ resp.body.id = caller
          /\ \E u \in Rows(users) : u.id = caller /\ u.email = resp.body.email
     /\ (req.route \in ListRoutes /\ resp.status = 200) =>
          \A k \in DOMAIN resp.body : resp.body[k].user_id = caller

\* A user listed the history while an entry of another user was stored.
C19_Witness ==
  /\ req.route = "GET /api/chat/history"
  /\ resp.status = 200
  /\ \E h \in Rows(chat_history) : h.user_id # req.auth[2].payload.id

\* C20 as stated: every stored entry with a session id is owned by the owner
\* of that session.
C20_EntryOwnerOwnsSession ==
  \A h \in Rows(chat_history) :
    h.session_id # NoId =>
      \E c \in Rows(chat_sessions) :
        c.id = h.session_id /\ c.user_id = h.user_id

\* ------------------------------------------------------- claims on the client
\* The saveToHistory invocations of the step.
NewSaves == {n \in DOMAIN saves' : n > Len(saves)}

\* Slot k takes up an invocation of fn in the step.
Began(k, fn) == calls[k].fn = Idle.fn /\ calls'[k].fn = fn

\* The invocation of fn in slot k, suspended at `at', is resumed in the step.
Resumed(k, fn, at) ==
  /\ calls[k].fn = fn
  /\ calls[k].at = at
  /\ (calls'[k].fn # fn \/ calls'[k].at # at)

\* The uploads whose analysis completed: each made the `Uploaded report'
\* entry.
CompletedUploads ==
  {n \in DOMAIN saves :
     saves[n].role = "user"
     /\ \E file \in Files : saves[n].content = UploadNote(file)}

\* C11 as stated: the report store holds one record for each upload whose
\* analysis completed, owned by the uploading user.
C11_OneRecordPerUpload ==
  /\ Len(medical_reports) = Cardinality(CompletedUploads)
  /\ \A m \in Rows(medical_reports) : m.user_id = users[1].id

\* C13: a handleSend begun with no current session and a token only sends
\* the session request and issues no history append; when it is resumed it
\* issues the append of the user message, and either it got no session (the
\* append carries none and the current session is as it was) or the session
\* of the answer is stored, is the current session and is the one the append
\* carries.
C13_SessionBeforeAppend ==
  [][\A k \in DOMAIN calls :
       /\ (Began(k, "handleSend") /\ app.currentSessionId = NoId
           /\ app.token # NoToken) =>
            /\ calls'[k].at = "sessions"
            /\ saves' = saves
            /\ net' = net
            /\ app'.currentSessionId = NoId
       /\ Resumed(k, "handleSend", "sessions") =>
            /\ calls'[k].at = "model"
            /\ NewSaves = {Len(saves) + 1}
            /\ saves'[Len(saves) + 1].role = "user"
            /\ saves'[Len(saves) + 1].content = calls[k].text
            /\ saves'[Len(saves) + 1].sessionId = calls'[k].sessionId
            /\ saves'[Len(saves) + 1].posted =>
                 \E m \in net' \ net :
                   /\ m.n = Len(saves) + 1
                   /\ m.body.sessionId = calls'[k].sessionId
            /\ \/ /\ calls'[k].sessionId = NoId
                  /\ app'.currentSessionId = app.currentSessionId
                  /\ app'.sessions = app.sessions
               \/ /\ calls[k].reply.status = 200
                  /\ calls'[k].sessionId = calls[k].reply.id
                  /\ calls'[k].sessionId # NoId
                  /\ app'.currentSessionId = calls[k].reply.id
                  /\ \E c \in Rows(chat_sessions) :
                       /\ c.id = calls[k].reply.id
                       /\ c.user_id = calls[k].token.payload.id]_vars

\* The first message of a conversation is waiting for the model, its append
\* in flight under the session that was created for it.
C13_Witness ==
  \E k \in Suspended("handleSend", "model") :
    /\ calls[k].sessionId # NoId
    /\ app.currentSessionId = calls[k].sessionId
    /\ SessionExists(calls[k].sessionId)
    /\ Len(saves) = 1
    /\ \E m \in net : m.n = 1 /\ m.body.sessionId = calls[k].sessionId

Chatting == {"handleSend", "handleFileUpload"}

AppendedLocally ==
  [i \in 1..(Len(saves') - Len(saves)) |->
     Message(saves'[Len(saves) + i].role, saves'[Len(saves) + i].content)]

\* C15 (as amended): a step of handleSend or handleFileUpload that appends
\* messages to the local list calls saveToHistory once for each, in order,
\* with its role and content; the call sends one POST /api/chat/history with
\* that role and content when localStorage holds a token and sends nothing
\* when it holds none; no other step sends such a request, so none is sent
\* twice; the step in which a request is handled or lost sends nothing and
\* leaves the local list and isLoading unchanged.
C15_AtMostOneAttempt ==
  [][/\ Len(saves') >= Len(saves)
     /\ \A n \in DOMAIN saves : saves'[n] = saves[n]
     /\ NewSaves # {} => app'.messages = app.messages \o AppendedLocally
     /\ (NewSaves = {} /\ app'.messages # app.messages) =>
          \/ startNewChat
          \/ \E k \in DOMAIN calls :
               Resumed(k, "fetchSessionMessages", "history")
     /\ \A n \in NewSaves :
          /\ saves'[n].posted = (app.token # NoToken)
          /\ Cardinality({m \in net' \ net : m.n = n}) =
               IF saves'[n].posted THEN 1 ELSE 0
     /\ \A m \in net' \ net :
          /\ m.n \in NewSaves
          /\ m.body.role = saves'[m.n].role
          /\ m.body.content = saves'[m.n].content
          /\ m.token = app.token
     /\ net \ net' # {} =>
          /\ app' = app
          /\ net' \subseteq net
          /\ saves' = saves]_vars

\* C15 as stated: every local append has its POST /api/chat/history.
C15_EveryAppendPosted == \A n \in DOMAIN saves : saves[n].posted

\* The first message was sent and its request was lost; the second was
\* appended after the logout and no request was made for it.
C15_Witness ==
  /\ Len(saves) = 2
  /\ saves[1].posted
  /\ ~saves[2].posted
  /\ net = {}
  /\ chat_history = <<>>
  /\ Len(app.messages) = 2

\* C16: the stored entries are, row for row, the saveToHistory requests the
\* server handled, in the order it handled them, each stored once.
C16_StoredInArrivalOrder ==
  /\ Len(landed) = Len(chat_history)
  /\ \A i, j \in DOMAIN landed : i # j => landed[i] # landed[j]
  /\ \A i \in DOMAIN landed :
       /\ landed[i] \in DOMAIN saves
       /\ chat_history[i].id = i
       /\ chat_history[i].role = saves[landed[i]].role
       /\ chat_history[i].content = saves[landed[i]].content
       /\ chat_history[i].session_id = saves[landed[i]].sessionId

\* The assistant entry of an exchange is stored before its user entry.
C16_Witness ==
  /\ landed = <<2, 1>>
  /\ saves[1].role = "user"
  /\ saves[2].role = "assistant"
  /\ saves[1].sessionId = saves[2].sessionId
  /\ chat_history[1].role = "assistant"
  /\ chat_history[2].role = "user"

\* C17 as stated: while a model call of handleSend is pending, isLoading is
\* true.
C17_LoadingWhilePending ==
  Suspended("handleSend", "model") # {} => app.isLoading

\* C18: when handleSend is resumed without a session (the session request
\* failed), it appends the user message locally, saves it with no session
\* id, and leaves the current session and the session list as they were; a
\* handleSend begun with no current session and a token sends a session
\* request, whatever happened before; a stored entry has the session id of
\* its save, none included.
C18_OrphanedEntry ==
  [][/\ \A k \in DOMAIN calls :
          /\ (Resumed(k, "handleSend", "sessions")
              /\ calls'[k].sessionId = NoId) =>
               /\ app'.messages =
                    Append(app.messages, Message("user", calls[k].text))
               /\ NewSaves = {Len(saves) + 1}
               /\ saves'[Len(saves) + 1].sessionId = NoId
               /\ saves'[Len(saves) + 1].role = "user"
               /\ saves'[Len(saves) + 1].content = calls[k].text
               /\ app'.currentSessionId = app.currentSessionId
               /\ app'.sessions = app.sessions
               /\ \A m \in net' \ net : m.body.sessionId = NoId
          /\ (Began(k, "handleSend") /\ app.currentSessionId = NoId
              /\ app.token # NoToken) =>
               /\ calls'[k].at = "sessions"
               /\ calls'[k].reply = NoReply
     /\ \A i \in DOMAIN landed' :
          chat_history'[i].session_id = saves'[landed'[i]].sessionId]_vars

\* After a failed session request the user entry is stored with no session,
\* the client has no current session, and the next handleSend is waiting
\* for its own session request.
C18_Witness ==
  /\ app.currentSessionId = NoId
  /\ Len(saves) >= 1
  /\ saves[1].role = "user"
  /\ saves[1].sessionId = NoId
  /\ \E h \in Rows(chat_history) : h.session_id = NoId /\ h.role = "user"
  /\ Suspended("handleSend", "sessions") # {}

\* The invocations of handleSend and handleFileUpload that wait for the
\* model (chatWithAI, analyzeReport).
AwaitingModel ==
  Suspended("handleSend", "model") \cup Suspended("handleFileUpload", "model")

\* C24 as stated: at most one model exchange is in flight at any time.
C24_OneModelExchange == Cardinality(AwaitingModel) <= 1

\* C23 as stated: a model reply that arrives for a handler whose session is
\* no longer the current one is not added to the message list, and the list
\* is empty whenever the client has no current session and no handleSend or
\* handleFileUpload is under way.
C23_ListOfCurrentSession ==
  /\ [][\A k \in DOMAIN calls :
          ((\E fn \in Chatting : Resumed(k, fn, "model"))
           /\ calls[k].sessionId # app.currentSessionId) =>
            app'.messages = app.messages]_vars
  /\ []((app.currentSessionId = NoId
         /\ \A k \in DOMAIN calls : calls[k].fn \notin Chatting) =>
          app.messages = <<>>)

\* C22 as stated: the client creates at most one chat session between two
\* resets to NoSession.  No chat is reset under SpecRace and the sessions
\* table starts empty, so every row of it was created for a handler of the
\* one conversation.
C22_OneSessionPerChat == Len(chat_sessions) <= 1

\* The session is a row of chat_sessions of the user.
OwnedBy(sessionId, userId) ==
  \E c \in Rows(chat_sessions) : c.id = sessionId /\ c.user_id = userId

\* C21 as stated: while a user is signed in, the current session and the
\* sessions of the list are sessions of that user, no message of the list
\* was issued under a session of another user, and no saveToHistory request
\* carries a session that is not a session of the user whose token it
\* carries.  No chat is reset under SpecSwitch, so message i of the list is
\* the message of saveToHistory invocation i.
C21_NothingOfPreviousUser ==
  app.user # NoId =>
    /\ app.currentSessionId # NoId =>
         OwnedBy(app.currentSessionId, app.user)
    /\ \A id \in app.sessions : OwnedBy(id, app.user)
    /\ \A i \in DOMAIN app.messages :
         saves[i].sessionId # NoId => OwnedBy(saves[i].sessionId, app.user)
    /\ \A m \in net :
         m.body.sessionId # NoId =>
           OwnedBy(m.body.sessionId, m.token.payload.id)

====
